---- MODULE Spec2Model ----
(***************************************************************************)
(* Threshold mode of the TF2 player-joined notifier                        *)
(* (src/tf2_player_joined_notifier_aws/threshold_mode.py).                 *)
(*                                                                         *)
(* One invocation of threshold_mode() is a sequence of steps separated by  *)
(* its external I/O calls: the S3 download of the timer file, the parse    *)
(* and comparison of the target time, the query of the game server, the    *)
(* S3 upload of the new timer file and the SNS publish.  The only state    *)
(* that outlives an invocation is the timer object on S3.                  *)
(***************************************************************************)
EXTENDS Integers, Sequences, FiniteSets, TLC

\* ------------------------------------------------------------------ bounds
MaxTicks == 3           \* how many times the wall clock advances in a run
MaxOverlapTicks == 1    \* the same, in a run whose invocations may overlap
MaxPlayers == 3         \* largest player count the server reports
MaxThreshold == 2       \* largest configured Config.PLAYER_COUNT_THRESHOLD
MaxTimerMinutes == 1    \* largest configured Config.THRESHOLD_TIMER_MINUTES

\* The wall clock advances by one of these numbers of seconds.
TickSteps == {1, 59, 60}

\* The invocation slots.  Under Spec only the first one runs, so invocations
\* never overlap.
Invocations == {"inv1", "inv2"}
Scheduled == {"inv1"}

\* A deployment with a threshold of 5 players and a cooldown of 30 minutes,
\* next to the small configurations the bounds give.
ScenarioConfig == [PLAYER_COUNT_THRESHOLD |-> 5, THRESHOLD_TIMER_MINUTES |-> 30]

Configs ==
    [PLAYER_COUNT_THRESHOLD : 1..MaxThreshold, THRESHOLD_TIMER_MINUTES : 0..MaxTimerMinutes]
        \cup {ScenarioConfig}

\* The player counts the server may report: the small ones and a busy server.
PlayerCounts == 0..MaxPlayers \cup {7}

\* --------------------------------------------------------------- constants
SUCCESS_STATUS_CODE == 200
ERROR_STATUS_CODE == 500

VARIABLES
    clock,          \* wall clock, integer seconds since the epoch
    ticks,          \* number of clock advances so far
    Config,         \* [PLAYER_COUNT_THRESHOLD, THRESHOLD_TIMER_MINUTES]
    s3,             \* the timer object: [exists, body]
    inv,            \* per invocation: its locals, result and effect counters
    sent            \* current_time of the last two invocations that published a threshold email, older first

vars == <<clock, ticks, Config, s3, inv, sent>>

\* ------------------------------------------------------- text <-> integer
Digits == <<"0", "1", "2", "3", "4", "5", "6", "7", "8", "9">>

DigitValue(c) == CHOOSE d \in 0..9 : Digits[d + 1] = c

IsDigit(c) == \E d \in 0..9 : Digits[d + 1] = c

RECURSIVE str(_)
\* Python str(n) of a non-negative integer: its decimal digits.
str(n) == IF n < 10 THEN <<Digits[n + 1]>>
          ELSE str(n \div 10) \o <<Digits[(n % 10) + 1]>>

\* Does Python int(line) raise ValueError?  It does on the empty string and
\* on any text that is not a decimal literal.
RaisesValueError(line) ==
    \/ Len(line) = 0
    \/ \E i \in 1..Len(line) : ~IsDigit(line[i])

RECURSIVE int(_)
\* Python int(line) of a line of decimal digits.
int(line) == IF Len(line) = 0 THEN 0
             ELSE 10 * int(SubSeq(line, 1, Len(line) - 1)) + DigitValue(line[Len(line)])

\* ------------------------------------------------------------ pure helpers
convert_minutes_to_seconds(minutes) == minutes * 60

generate_return_message(status_code, body) == [statusCode |-> status_code, body |-> body]

NoResult == [statusCode |-> 0, body |-> "-"]

\* Faulty variants of the not-found test: none, or every, exception counts.
IsNoSuchKey_Never(e) == FALSE

IsNoSuchKey_Always(e) == TRUE

\* line 47: the exception of the download is the S3 error NoSuchKey
IsNoSuchKey(e) == e = "NoSuchKey"

\* Faulty variants of the comparison: it always succeeds, it is strict, or
\* its direction is reversed.
passed_target_time_Always(current_time, target_time) == TRUE

passed_target_time_Strict(current_time, target_time) == current_time > target_time

passed_target_time_Reversed(current_time, target_time) == current_time <= target_time

\* line 59: passed_target_time
passed_target_time(current_time, target_time) == current_time >= target_time

\* Faulty variants of the new target time: the minutes are not converted to
\* seconds, or the cooldown is not added at all.
new_target_time_Minutes(current_time, minutes) == current_time + minutes

new_target_time_Now(current_time, minutes) == current_time

\* lines 99-100: the new target time
new_target_time(current_time, minutes) == current_time + convert_minutes_to_seconds(minutes)

\* Faulty variant of the branch: the threshold test is missing.
Branch_NoThreshold(player_count, threshold) ==
    IF player_count = 0 THEN "none" ELSE "notify"

\* lines 81-95: the branch taken for a player count
Branch(player_count, threshold) ==
    IF player_count = 0 THEN "none"
    ELSE IF player_count < threshold THEN "below"
    ELSE "notify"

\* ------------------------------------------------------------------- state
NoSuchObject == [exists |-> FALSE, body |-> <<>>]

Object(body) == [exists |-> TRUE, body |-> body]

\* The locals of an invocation that has not started.
Idle == [pc |-> "idle",
         current_time |-> 0,
         before |-> NoSuchObject,    \* the timer object when the invocation started
         timer_file |-> <<>>,        \* /tmp/<TIMER_FILE>
         target_time |-> 0,
         player_count |-> 0,
         read |-> "-",               \* outcome of the download: ok, NoSuchKey, IOError
         query |-> "-",              \* outcome of the server query: ok, failed
         upload |-> "-",             \* outcome of the upload: ok, failed
         publish |-> "-",            \* outcome of the threshold email: ok, failed
         queries |-> 0,              \* server queries made
         uploads |-> 0,              \* timer uploads attempted
         emails |-> 0,               \* threshold emails attempted
         message_next_check |-> 0,   \* the next-check time the threshold email reports
         error_emails |-> 0,         \* error emails attempted
         raised |-> "-",             \* the exception that escaped, if any
         result |-> NoResult]

\* The timer objects an earlier deployment, or an operator, may have left.
InitialTimers ==
    {NoSuchObject, Object(<<>>), Object(<<"x">>), Object(str(0)), Object(str(1)), Object(str(61))}

Init ==
    /\ clock = 1
    /\ ticks = 0
    /\ Config \in Configs
    /\ s3 \in InitialTimers
    /\ inv = [p \in Invocations |-> Idle]
    /\ sent = <<>>

\* ----------------------------------------------------------------- actions
Set(p, r) == inv' = [inv EXCEPT ![p] = r]

\* The wall clock advances by one of steps, at most bound times in a run.
TickWithin(bound, steps) ==
    /\ ticks < bound
    /\ \E d \in steps : clock' = clock + d
    /\ ticks' = ticks + 1
    /\ UNCHANGED <<Config, s3, inv, sent>>

Tick == TickWithin(MaxTicks, TickSteps)

\* handle_error(sns_client, message): one error email is attempted and the
\* ERROR result returned; the invocation ends.
handle_error(p, locals, message) ==
    Set(p, [locals EXCEPT !.pc = "done",
                          !.error_emails = @ + 1,
                          !.result = generate_return_message(ERROR_STATUS_CODE, message)])

\* lines 30-39: the invocation starts and captures the current time.
Start(p) ==
    /\ inv[p].pc = "idle"
    /\ \A q \in Invocations : inv[q].pc = "idle"
    /\ Set(p, [Idle EXCEPT !.pc = "download", !.current_time = clock, !.before = s3])
    /\ UNCHANGED <<clock, ticks, Config, s3, sent>>

\* lines 42-44: the timer file is downloaded.
Download(p) ==
    /\ inv[p].pc = "download"
    /\ s3.exists
    /\ Set(p, [inv[p] EXCEPT !.pc = "parse", !.read = "ok", !.timer_file = s3.body])
    /\ UNCHANGED <<clock, ticks, Config, s3, sent>>

\* handle_timer_file_not_found(s3_client, sns_client, current_time): the
\* timer is initialised to the current time.
handle_timer_file_not_found(p, locals) ==
    /\ s3' = Object(str(locals.current_time))
    /\ Set(p, [locals EXCEPT !.pc = "done",
                             !.uploads = @ + 1,
                             !.upload = "ok",
                             !.result = generate_return_message(SUCCESS_STATUS_CODE, "Timer file created")])

\* lines 45-50: the download raised e.
DownloadRaises(p, e) ==
    LET locals == [inv[p] EXCEPT !.read = e] IN
    IF IsNoSuchKey(e)
    THEN handle_timer_file_not_found(p, locals)
    ELSE /\ handle_error(p, locals, "Caught exception when downloading timer file from S3")
         /\ UNCHANGED s3

\* lines 42-48: there is no timer object.
DownloadNotFound(p) ==
    /\ inv[p].pc = "download"
    /\ ~s3.exists
    /\ DownloadRaises(p, "NoSuchKey")
    /\ UNCHANGED <<clock, ticks, Config, sent>>

\* lines 42-50: the download fails for another reason.
DownloadFails(p) ==
    /\ inv[p].pc = "download"
    /\ DownloadRaises(p, "IOError")
    /\ UNCHANGED <<clock, ticks, Config, sent>>

\* lines 52-65: the target time is read from the file and compared.
Compare(p) ==
    /\ inv[p].pc = "parse"
    /\ LET line == inv[p].timer_file IN
       IF RaisesValueError(line)
       THEN Set(p, [inv[p] EXCEPT !.pc = "done", !.raised = "ValueError"])
       ELSE LET locals == [inv[p] EXCEPT !.target_time = int(line)] IN
            IF locals.target_time = 0
            THEN handle_error(p, locals, "Timer file was empty")
            ELSE IF ~passed_target_time(locals.current_time, locals.target_time)
            THEN Set(p, [locals EXCEPT !.pc = "done",
                                       !.result = generate_return_message(200, "We haven't passed the target time yet. Don't do anything.")])
            ELSE Set(p, [locals EXCEPT !.pc = "query"])
    /\ UNCHANGED <<clock, ticks, Config, s3, sent>>

\* lines 67-95: the server answers with a player count.
GetPlayers(p) ==
    /\ inv[p].pc = "query"
    /\ \E n \in PlayerCounts :
         LET locals == [inv[p] EXCEPT !.player_count = n, !.query = "ok", !.queries = @ + 1]
             branch == Branch(n, Config.PLAYER_COUNT_THRESHOLD) IN
         IF branch = "none"
         THEN Set(p, [locals EXCEPT !.pc = "done",
                                    !.result = generate_return_message(200, "There were no players")])
         ELSE IF branch = "below"
         THEN Set(p, [locals EXCEPT !.pc = "done",
                                    !.result = generate_return_message(200, "There are players, but fewer than the threshold, so don't send an email")])
         ELSE Set(p, [locals EXCEPT !.pc = "upload"])
    /\ UNCHANGED <<clock, ticks, Config, s3, sent>>

\* lines 69-71: the server cannot be reached; nothing catches the exception.
GetPlayersFails(p) ==
    /\ inv[p].pc = "query"
    /\ Set(p, [inv[p] EXCEPT !.pc = "done", !.query = "failed", !.queries = @ + 1,
                             !.raised = "ConnectionError"])
    /\ UNCHANGED <<clock, ticks, Config, s3, sent>>

\* Faulty variant of the upload: the object is replaced only if it is still
\* the one the invocation found (a conditional write).
Upload_IfUnchanged(p) ==
    /\ inv[p].pc = "upload"
    /\ LET text == str(new_target_time(inv[p].current_time, Config.THRESHOLD_TIMER_MINUTES)) IN
       /\ s3' = IF s3 = inv[p].before THEN Object(text) ELSE s3
       /\ Set(p, [inv[p] EXCEPT !.pc = "publish", !.timer_file = text,
                                !.upload = "ok", !.uploads = @ + 1])
    /\ UNCHANGED <<clock, ticks, Config, sent>>

\* lines 98-108: the new target time is written to the file and uploaded.
Upload(p) ==
    /\ inv[p].pc = "upload"
    /\ LET text == str(new_target_time(inv[p].current_time, Config.THRESHOLD_TIMER_MINUTES)) IN
       /\ s3' = Object(text)
       /\ Set(p, [inv[p] EXCEPT !.pc = "publish", !.timer_file = text,
                                !.upload = "ok", !.uploads = @ + 1])
    /\ UNCHANGED <<clock, ticks, Config, sent>>

\* Faulty variant of the failed upload: the exception is swallowed and the
\* invocation goes on to publish.
UploadFails_Continues(p) ==
    /\ inv[p].pc = "upload"
    /\ Set(p, [inv[p] EXCEPT !.pc = "publish", !.upload = "failed", !.uploads = @ + 1])
    /\ UNCHANGED <<clock, ticks, Config, s3, sent>>

\* lines 104-107: the upload fails.
UploadFails(p) ==
    /\ inv[p].pc = "upload"
    /\ LET text == str(new_target_time(inv[p].current_time, Config.THRESHOLD_TIMER_MINUTES)) IN
       handle_error(p, [inv[p] EXCEPT !.timer_file = text, !.upload = "failed", !.uploads = @ + 1],
                    "Caught exception when uploading")
    /\ UNCHANGED <<clock, ticks, Config, s3, sent>>

\* lines 110-118: the threshold email is published.
SendEmail(p) ==
    /\ inv[p].pc = "publish"
    /\ Set(p, [inv[p] EXCEPT !.pc = "done", !.publish = "ok", !.emails = @ + 1,
                             !.message_next_check = new_target_time(inv[p].current_time, Config.THRESHOLD_TIMER_MINUTES),
                             !.result = generate_return_message(SUCCESS_STATUS_CODE, "Email sent successfully")])
    /\ sent' = IF Len(sent) < 2 THEN Append(sent, inv[p].current_time)
                ELSE <<sent[2], inv[p].current_time>>
    /\ UNCHANGED <<clock, ticks, Config, s3>>

\* lines 113-115: the publish fails; nothing catches the exception.
SendEmailFails(p) ==
    /\ inv[p].pc = "publish"
    /\ Set(p, [inv[p] EXCEPT !.pc = "done", !.publish = "failed", !.emails = @ + 1,
                             !.message_next_check = new_target_time(inv[p].current_time, Config.THRESHOLD_TIMER_MINUTES),
                             !.raised = "DeliveryError"])
    /\ UNCHANGED <<clock, ticks, Config, s3, sent>>

\* The invocation has returned (or raised) and its locals are discarded.
Return(p) ==
    /\ inv[p].pc = "done"
    /\ Set(p, Idle)
    /\ UNCHANGED <<clock, ticks, Config, s3, sent>>

Step(p) ==
    \/ Download(p)
    \/ DownloadNotFound(p)
    \/ DownloadFails(p)
    \/ Compare(p)
    \/ GetPlayers(p)
    \/ GetPlayersFails(p)
    \/ Upload(p)
    \/ UploadFails(p)
    \/ SendEmail(p)
    \/ SendEmailFails(p)
    \/ Return(p)

Next ==
    \/ Tick
    \/ \E p \in Scheduled : Start(p) \/ Step(p)

Spec == Init /\ [][Next]_vars

\* lines 30-39: an invocation is triggered while another may still be running;
\* nothing in threshold_mode excludes it.
StartOverlapping(p) ==
    /\ inv[p].pc = "idle"
    /\ Set(p, [Idle EXCEPT !.pc = "download", !.current_time = clock, !.before = s3])
    /\ UNCHANGED <<clock, ticks, Config, s3, sent>>

\* Overlapping invocations start within seconds of each other.
\* Invocations keep being triggered, one after another, and each runs to its
\* end; the first finds no timer object.
Invoke == \E p \in Scheduled : Start(p) \/ Step(p)

InitFirstRun ==
    /\ Init
    /\ s3 = NoSuchObject

SpecLive == InitFirstRun /\ [][Next]_vars /\ WF_vars(Invoke)

TickOverlap == TickWithin(MaxOverlapTicks, {1})

NextOverlap ==
    \/ TickOverlap
    \/ \E p \in Invocations : StartOverlapping(p) \/ Step(p)

\* The first of two overlapping invocations finds no timer or an elapsed one.
InitOverlap ==
    /\ Init
    /\ s3 \in {NoSuchObject, Object(str(1))}

\* Invocations that may overlap.
SpecOverlap == InitOverlap /\ [][NextOverlap]_vars

\* ------------------------------------------------------- reading a result
IsOK(r) == r.statusCode = SUCCESS_STATUS_CODE

IsERROR(r) == r.statusCode >= 400

Done(p) == inv[p].pc = "done"

\* The cooldown in seconds.
Cooldown == convert_minutes_to_seconds(Config.THRESHOLD_TIMER_MINUTES)

\* The timer object holds the decimal text of t.
TimerIs(t) == s3.exists /\ ~RaisesValueError(s3.body) /\ int(s3.body) = t

\* The invocation went down the notify path: the cooldown had elapsed and the
\* server reported at least the threshold.
OnNotifyPath(p) ==
    /\ Done(p)
    /\ inv[p].query = "ok"
    /\ inv[p].player_count >= Config.PLAYER_COUNT_THRESHOLD

NotYetDue == "We haven't passed the target time yet. Don't do anything."

\* ------------------------------------------------------------------ claims

C2_CooldownRespected ==
    /\ Len(sent) = 2 => sent[2] - sent[1] >= Cooldown
    /\ \A p \in Invocations :
         (/\ Done(p)
          /\ inv[p].publish # "ok"
          /\ Len(sent) > 0
          /\ sent[Len(sent)] <= inv[p].current_time
          /\ inv[p].current_time < sent[Len(sent)] + Cooldown)
         => /\ inv[p].emails = 0
            /\ inv[p].queries = 0
            /\ inv[p].uploads = 0
            /\ (inv[p].read = "ok" =>
                    inv[p].result = generate_return_message(200, NotYetDue))

C2_Witness ==
    /\ Len(sent) = 2
    /\ Cooldown > 0
    /\ \E p \in Invocations :
         /\ Done(p)
         /\ inv[p].publish # "ok"
         /\ inv[p].read = "ok"
         /\ sent[2] < inv[p].current_time
         /\ inv[p].current_time < sent[2] + Cooldown
         /\ inv[p].result = generate_return_message(200, NotYetDue)

\* C3: an invocation whose download fails with NoSuchKey creates the timer
\* with next_check_at = now, queries nothing, sends no notification and
\* returns OK.
C3_FirstRun ==
    \A p \in Invocations : (Done(p) /\ inv[p].read = "NoSuchKey") =>
        /\ ~inv[p].before.exists
        /\ TimerIs(inv[p].current_time)
        /\ inv[p].queries = 0
        /\ inv[p].emails = 0
        /\ inv[p].error_emails = 0
        /\ IsOK(inv[p].result)

C3_Witness ==
    \E p \in Invocations :
        /\ Done(p)
        /\ inv[p].read = "NoSuchKey"
        /\ inv[p].current_time > 1
        /\ TimerIs(inv[p].current_time)

\* The timer the invocation found holds a target time after its captured time.
FoundCooling(p) ==
    /\ inv[p].before.exists
    /\ ~RaisesValueError(inv[p].before.body)
    /\ inv[p].current_time < int(inv[p].before.body)

\* C4: an invocation that reads a timer with now < next_check_at queries
\* nothing, sends nothing, leaves the timer as it was and returns OK.
C4_NotYetDue ==
    \A p \in Invocations : (Done(p) /\ inv[p].read = "ok" /\ FoundCooling(p)) =>
        /\ inv[p].queries = 0
        /\ inv[p].emails = 0
        /\ inv[p].error_emails = 0
        /\ inv[p].uploads = 0
        /\ s3 = inv[p].before
        /\ inv[p].raised = "-"
        /\ IsOK(inv[p].result)

C4_Witness ==
    \E p \in Invocations :
        /\ Done(p) /\ inv[p].read = "ok" /\ FoundCooling(p)
        /\ int(inv[p].before.body) = 61
        /\ inv[p].current_time = 60
        /\ inv[p].result = generate_return_message(200, NotYetDue)

\* C5: an invocation whose cooldown has elapsed and whose query reports
\* fewer players than the threshold (none, or some) leaves the timer as it
\* was, sends nothing and returns OK.
C5_BelowThreshold ==
    \A p \in Invocations :
        (/\ Done(p)
         /\ inv[p].query = "ok"
         /\ inv[p].player_count < Config.PLAYER_COUNT_THRESHOLD)
        => /\ inv[p].current_time >= inv[p].target_time
           /\ inv[p].uploads = 0
           /\ s3 = inv[p].before
           /\ inv[p].emails = 0
           /\ inv[p].error_emails = 0
           /\ inv[p].raised = "-"
           /\ IsOK(inv[p].result)

C5_Witness ==
    \E p \in Invocations :
        /\ Done(p)
        /\ inv[p].query = "ok"
        /\ inv[p].player_count = 1
        /\ Config.PLAYER_COUNT_THRESHOLD = 2
        /\ IsOK(inv[p].result)

C7_NoFaultEscapes ==
    \A p \in Invocations : Done(p) =>
        /\ inv[p].raised = "-"
        /\ inv[p].result # NoResult
        /\ (\/ inv[p].read = "IOError"
            \/ inv[p].upload = "failed"
            \/ inv[p].query = "failed") => IsERROR(inv[p].result)

\* C8: an invocation whose download fails with anything but NoSuchKey
\* returns ERROR, attempts exactly one error notification, queries nothing
\* and does not write the timer.
C8_ReadFailure ==
    \A p \in Invocations : (Done(p) /\ inv[p].read = "IOError") =>
        /\ IsERROR(inv[p].result)
        /\ inv[p].error_emails = 1
        /\ inv[p].emails = 0
        /\ inv[p].queries = 0
        /\ inv[p].uploads = 0
        /\ s3 = inv[p].before

C8_Witness ==
    \E p \in Invocations :
        /\ Done(p)
        /\ inv[p].read = "IOError"
        /\ inv[p].error_emails = 1
        /\ ~inv[p].before.exists

\* C9: an invocation that reads a timer whose content is empty or no
\* integer returns ERROR, attempts an error notification, and neither
\* queries the server nor writes the timer.
C9_MalformedTimer ==
    \A p \in Invocations :
        (Done(p) /\ inv[p].read = "ok" /\ RaisesValueError(inv[p].before.body)) =>
            /\ IsERROR(inv[p].result)
            /\ inv[p].error_emails = 1
            /\ inv[p].queries = 0
            /\ inv[p].uploads = 0

\* C10: an invocation whose cooldown has elapsed and whose server query
\* fails returns ERROR, attempts an error notification and leaves the
\* timer as it was.
C10_QueryFailure ==
    \A p \in Invocations : (Done(p) /\ inv[p].query = "failed") =>
        /\ IsERROR(inv[p].result)
        /\ inv[p].error_emails >= 1
        /\ s3 = inv[p].before

\* C11 as stated: with threshold 5, cooldown 30 minutes and no timer record,
\* a single invocation against a server with 7 players writes now + 1800,
\* sends the threshold notification and returns {200, "Email sent
\* successfully"}.
C11_Original ==
    \A p \in Invocations :
        (Done(p) /\ Config = ScenarioConfig /\ inv[p].read = "NoSuchKey") =>
            /\ TimerIs(inv[p].current_time + 1800)
            /\ inv[p].emails = 1
            /\ inv[p].result = generate_return_message(200, "Email sent successfully")

\* C11 amended: with threshold 5 and cooldown 30 minutes, an invocation that
\* finds no timer record only writes now and returns OK without querying or
\* notifying; an invocation that finds an elapsed timer, is told 7 players
\* and whose upload and publish succeed writes now + 1800, sends one
\* threshold notification and returns {200, "Email sent successfully"}.
C11_Scenario ==
    \A p \in Invocations : (Done(p) /\ Config = ScenarioConfig) =>
        /\ inv[p].read = "NoSuchKey" =>
                /\ TimerIs(inv[p].current_time)
                /\ inv[p].queries = 0
                /\ inv[p].emails = 0
                /\ IsOK(inv[p].result)
        /\ (/\ inv[p].query = "ok"
            /\ inv[p].player_count = 7
            /\ inv[p].upload = "ok"
            /\ inv[p].publish = "ok") =>
                /\ inv[p].current_time >= inv[p].target_time
                /\ TimerIs(inv[p].current_time + 1800)
                /\ inv[p].emails = 1
                /\ inv[p].result = generate_return_message(200, "Email sent successfully")

C11_Witness ==
    \E p \in Invocations :
        /\ Done(p)
        /\ Config = ScenarioConfig
        /\ inv[p].before = Object(str(inv[p].current_time))
        /\ inv[p].player_count = 7
        /\ inv[p].publish = "ok"
        /\ TimerIs(inv[p].current_time + 1800)

\* The rate-limiting state of a timer object at time t: COOLING while the
\* target time it holds lies ahead, ARMED when it has passed or no object
\* exists.
CoolingAt(object, t) ==
    /\ object.exists
    /\ ~RaisesValueError(object.body)
    /\ t < int(object.body)

ArmedAt(object, t) ==
    \/ ~object.exists
    \/ /\ ~RaisesValueError(object.body)
       /\ t >= int(object.body)

\* This step is the first-run initialisation of the timer by p.
FirstRunWrite(p) ==
    /\ inv[p].pc = "download"
    /\ ~s3.exists
    /\ inv'[p].read = "NoSuchKey"
    /\ s3' = Object(str(inv[p].current_time))

\* This step is the successful timer upload of p on the notify path.
NotifyWrite(p) ==
    /\ inv[p].pc = "upload"
    /\ inv[p].player_count >= Config.PLAYER_COUNT_THRESHOLD
    /\ inv'[p].upload = "ok"
    /\ s3' = Object(str(inv[p].current_time + Cooldown))

C13_LastWriteWins ==
    [][\A p \in Invocations :
          /\ (inv[p].pc = "upload" /\ inv'[p].upload = "ok") =>
                 s3' = Object(str(inv[p].current_time + Cooldown))
          /\ (inv[p].pc = "publish" /\ inv'[p].publish = "ok") =>
                 /\ inv[p].read = "ok"
                 /\ inv[p].queries = 1
                 /\ inv[p].current_time >= inv[p].target_time
                 /\ sent'[Len(sent')] = inv[p].current_time]_vars

\* Both invocations read the same elapsed timer, both queried, both published
\* a threshold email less than a cooldown apart, and the store holds the
\* value of the upload that landed last, not the later target time.
C13_Witness ==
    LET a == inv["inv1"]
        b == inv["inv2"] IN
    /\ a.pc = "done" /\ b.pc = "done"
    /\ a.read = "ok" /\ b.read = "ok"
    /\ a.before = b.before
    /\ a.target_time = b.target_time
    /\ a.queries = 1 /\ b.queries = 1
    /\ a.publish = "ok" /\ b.publish = "ok"
    /\ Cooldown > 0
    /\ sent = <<b.current_time, a.current_time>>
    /\ a.current_time < b.current_time
    /\ b.current_time - a.current_time < Cooldown
    /\ TimerIs(a.current_time + Cooldown)

\* C14: the timer is written before the threshold email is sent: an
\* invocation that is about to publish, or has attempted to, uploaded
\* successfully, and the store holds now + cooldown_seconds, the next-check
\* time the email reports.
C14_WriteBeforeSend ==
    \A p \in Invocations :
        /\ inv[p].pc = "publish" =>
               /\ inv[p].upload = "ok"
               /\ TimerIs(inv[p].current_time + Cooldown)
        /\ inv[p].emails >= 1 =>
               /\ inv[p].upload = "ok"
               /\ inv[p].uploads = 1
               /\ inv[p].message_next_check = inv[p].current_time + Cooldown
               /\ TimerIs(inv[p].message_next_check)

C14_Witness ==
    \E p \in Invocations :
        /\ Done(p)
        /\ inv[p].publish = "ok"
        /\ inv[p].emails = 1
        /\ Cooldown > 0
        /\ inv[p].message_next_check = inv[p].current_time + 60
        /\ TimerIs(inv[p].message_next_check)
        /\ inv[p].before # s3

\* The timer object holds a decimal target time.
HoldsTime(object) == object.exists /\ ~RaisesValueError(object.body)

\* C16: the persisted next_check_at never decreases, and a timer that holds
\* a time keeps holding one.
C16_TimerNeverDecreases ==
    [][HoldsTime(s3) => (HoldsTime(s3') /\ int(s3'.body) >= int(s3.body))]_vars

C16_Witness ==
    \E p \in Invocations :
        /\ inv[p].pc = "publish"
        /\ HoldsTime(inv[p].before)
        /\ HoldsTime(s3)
        /\ int(inv[p].before.body) = 61
        /\ int(s3.body) > 61

\* C17: an invocation makes at most one timer write, at most one
\* notification attempt (threshold or error) and at most one server query,
\* and it queries only after reading a timer whose time has passed.
C17_AtMostOnce ==
    \A p \in Invocations :
        /\ inv[p].uploads <= 1
        /\ inv[p].emails + inv[p].error_emails <= 1
        /\ inv[p].queries <= 1
        /\ inv[p].queries >= 1 =>
               /\ inv[p].read = "ok"
               /\ HoldsTime(inv[p].before)
               /\ inv[p].target_time = int(inv[p].before.body)
               /\ inv[p].current_time >= inv[p].target_time

C17_Witness ==
    \E p \in Invocations :
        /\ Done(p)
        /\ inv[p].queries = 1
        /\ inv[p].uploads = 1
        /\ inv[p].emails = 1
        /\ inv[p].error_emails = 0
        /\ inv[p].current_time > inv[p].target_time

\* An invocation met an I/O failure, or a server with fewer players than the
\* threshold.
Hindered ==
    \E p \in Invocations :
        \/ inv[p].read = "IOError"
        \/ inv[p].query = "failed"
        \/ inv[p].upload = "failed"
        \/ inv[p].publish = "failed"
        \/ inv[p].query = "ok" /\ inv[p].player_count < Config.PLAYER_COUNT_THRESHOLD

\* C15: starting without a timer record, with invocations triggered one
\* after another, a threshold notification is eventually sent unless some
\* I/O fails or the server reports fewer players than the threshold.
C15_EventuallyNotified == <>(Hindered \/ Len(sent) > 0)

\* The invocation right after the first run, at the same clock reading,
\* found the timer equal to its own time and published.
C15_Witness ==
    \E p \in Invocations :
        /\ Done(p)
        /\ inv[p].before = Object(str(inv[p].current_time))
        /\ inv[p].current_time = inv[p].target_time
        /\ inv[p].publish = "ok"
        /\ sent = <<inv[p].current_time>>

====
